---------------------------- MODULE Spec2Model ----------------------------
(***************************************************************************)
(* Memflix (src/unnamed/part_000): text chunks paired with embedding       *)
(* vectors, serialised as one barcode frame per chunk into a video plus a  *)
(* sidecar vector file, and read back for similarity search.               *)
(*                                                                         *)
(* Conventions of the model                                                *)
(*  - a JavaScript string is a sequence of one-character strings;          *)
(*  - a Float32Array is a sequence of integers; the components used are    *)
(*    -1, 0, 1, which a Float32Array stores exactly;                       *)
(*  - a Map is the sequence of its [key, value] entries in insertion       *)
(*    order;                                                               *)
(*  - the md5 prefix of generateId is taken collision free: the id of a    *)
(*    string is that string.                                               *)
(***************************************************************************)
EXTENDS Integers, Sequences, FiniteSets, TLC

(***************************************************************************)
(* Bounds of the model.                                                    *)
(***************************************************************************)
\* longest text handed to chunkText in the chunker specification
MaxTextLen == 4
\* largest maxSize handed to chunkText in the chunker specification
MaxMaxSize == 3

(***************************************************************************)
(* Strings.                                                                *)
(***************************************************************************)
IsSpace(c) == c = " "

\* String.prototype.trim, used at part_000:222, 228, 235
RECURSIVE TrimLeft(_)
TrimLeft(s) ==
    IF s = <<>> THEN <<>>
    ELSE IF IsSpace(Head(s)) THEN TrimLeft(Tail(s)) ELSE s

RECURSIVE TrimRight(_)
TrimRight(s) ==
    IF s = <<>> THEN <<>>
    ELSE IF IsSpace(s[Len(s)]) THEN TrimRight(SubSeq(s, 1, Len(s) - 1)) ELSE s

Trim(s) == TrimRight(TrimLeft(s))

\* the separator class of the split at part_000:222, /[.!?]+/
IsTerminator(c) == c \in {".", "!", "?"}

\* text.split(/[.!?]+/) without its empty pieces: the maximal runs of
\* characters that are no terminator.  (split also yields an empty piece
\* before a leading and after a trailing separator run; the filter of the
\* same line drops every empty piece.)
RECURSIVE SplitRuns(_, _)
SplitRuns(text, cur) ==
    IF text = <<>> THEN (IF cur = <<>> THEN <<>> ELSE <<cur>>)
    ELSE IF IsTerminator(Head(text))
         THEN (IF cur = <<>> THEN SplitRuns(Tail(text), <<>>)
                             ELSE <<cur>> \o SplitRuns(Tail(text), <<>>))
         ELSE SplitRuns(Tail(text), Append(cur, Head(text)))

\* .filter(s => s.trim())
RECURSIVE FilterNonBlank(_)
FilterNonBlank(ss) ==
    IF ss = <<>> THEN <<>>
    ELSE IF Trim(Head(ss)) = <<>> THEN FilterNonBlank(Tail(ss))
         ELSE <<Head(ss)>> \o FilterNonBlank(Tail(ss))

Sentences(text) == FilterNonBlank(SplitRuns(text, <<>>))

(***************************************************************************)
(* chunkText (part_000:221-237).  The loop state is the buffer             *)
(* currentChunk, the number n of sentences joined into it, and the chunks  *)
(* pushed so far; every pushed chunk carries the number of sentences it    *)
(* was made of.                                                            *)
(***************************************************************************)
\* the flush test of part_000:227
Overflows(currentChunk, sentence, maxSize) ==
    Len(currentChunk) + Len(sentence) > maxSize /\ currentChunk # <<>>

\* the join of part_000:231
Joined(currentChunk, sentence) ==
    currentChunk \o (IF currentChunk # <<>> THEN <<".", " ">> ELSE <<>>) \o sentence

RECURSIVE ChunkLoop(_, _, _, _, _)
ChunkLoop(sentences, currentChunk, n, chunks, maxSize) ==
    IF sentences = <<>>
    THEN IF currentChunk # <<>>
         THEN Append(chunks, [text |-> Trim(currentChunk), sentences |-> n])
         ELSE chunks
    ELSE LET sentence == Head(sentences) IN
         IF Overflows(currentChunk, sentence, maxSize)
         THEN ChunkLoop(Tail(sentences), sentence, 1,
                        Append(chunks, [text |-> Trim(currentChunk), sentences |-> n]),
                        maxSize)
         ELSE ChunkLoop(Tail(sentences), Joined(currentChunk, sentence), n + 1,
                        chunks, maxSize)

ChunkTextCounted(text, maxSize) == ChunkLoop(Sentences(text), <<>>, 0, <<>>, maxSize)

chunkText(text, maxSize) ==
    LET c == ChunkTextCounted(text, maxSize) IN [i \in 1..Len(c) |-> c[i].text]

(***************************************************************************)
(* State.                                                                  *)
(***************************************************************************)
VARIABLES
    index,            \* this.index: the Chunk Index, a Map in insertion order
    embeddings,       \* this.embeddings: null, or the packed Float32Array
    embeddingIndex,   \* this.embeddingIndex: Map chunk id -> offset
    embeddingDim,     \* this.config.embeddingDim
    disk,             \* the video file and its sidecar file
    pt,               \* the processText call in flight, if any
    last,             \* what the last finished call did and returned
    ck,               \* the chunker specification's call of chunkText
    fn                \* the frame-name specification's pair of frames

vars == <<index, embeddings, embeddingIndex, embeddingDim, disk, pt, last, ck, fn>>

core == <<index, embeddings, embeddingIndex, embeddingDim, disk, pt, last>>

(***************************************************************************)
(* Values.                                                                 *)
(***************************************************************************)
\* JavaScript's undefined, where a string is expected (a Map key, a field)
Undefined == <<"undefined">>

\* a metadata object has the caller's field source, or none ("<absent>"),
\* and the field index that processBatch adds
AbsentField == "<absent>"

\* an undefined metadata field
NoMetadata == [source |-> "<undefined>", index |-> -1]

\* the values a Chunk Index entry can hold: an object with the fields id,
\* text and metadata (each possibly undefined), or a number
ObjectValue(id, text, metadata) ==
    [kind |-> "object", id |-> id, text |-> text, metadata |-> metadata]

NumberValue == [kind |-> "number", id |-> Undefined, text |-> Undefined,
                metadata |-> NoMetadata]

(***************************************************************************)
(* Map (insertion ordered): set, get, has, keys.                           *)
(***************************************************************************)
MapHas(m, k) == \E i \in 1..Len(m) : m[i].key = k

MapPos(m, k) == CHOOSE i \in 1..Len(m) : m[i].key = k

MapGet(m, k) == m[MapPos(m, k)].value

\* Map.prototype.set: a present key keeps its place and takes the new value
MapSet(m, k, v) ==
    IF MapHas(m, k)
    THEN [m EXCEPT ![MapPos(m, k)] = [key |-> k, value |-> v]]
    ELSE Append(m, [key |-> k, value |-> v])

MapKeys(m) == {m[i].key : i \in 1..Len(m)}

MapEntries(m) == {m[i] : i \in 1..Len(m)}

(***************************************************************************)
(* Configuration of the modelled instance (part_000:17-28).                *)
(***************************************************************************)
\* config.embeddingDim before any vector is stored
DefaultEmbeddingDim == 384

\* the options the modelled instance is constructed with (part_000:27 lets
\* the caller's options replace the defaults 1500 and 100; test.js:8 gives
\* maxChunkSize): every sentence is a chunk of its own and every chunk a
\* batch of its own
Options == [maxChunkSize |-> 1, batchSize |-> 1]

\* the buffer never grows beyond this many components in the model
MaxBufLen == 2

(***************************************************************************)
(* generateId (part_000:239-241) of the string chunk + offset + i          *)
(* (part_000:78).                                                          *)
(***************************************************************************)
DigitChar(d) == <<"0", "1", "2", "3", "4", "5", "6", "7", "8", "9">>[d + 1]

RECURSIVE NumberToString(_)
NumberToString(n) ==
    IF n < 10 THEN <<DigitChar(n)>>
    ELSE Append(NumberToString(n \div 10), DigitChar(n % 10))

generateId(text) == text

ChunkIdOf(chunk, offset, i) ==
    generateId(chunk \o NumberToString(offset) \o NumberToString(i))

(***************************************************************************)
(* The Vector Store: embeddings, embeddingIndex, config.embeddingDim.      *)
(***************************************************************************)
NullEmbeddings == [null |-> TRUE, buf |-> <<>>]

Store == [embeddings |-> embeddings, embeddingIndex |-> embeddingIndex,
          embeddingDim |-> embeddingDim]

\* storeEmbedding without newEmbeddings.set(embedding, offset) of
\* part_000:104: the buffer grows by zeros
storeEmbedding_NoWrite(st, chunkId, embedding) ==
    LET dim    == IF st.embeddings.null THEN Len(embedding) ELSE st.embeddingDim
        offset == Len(st.embeddings.buf)
    IN  [embeddings     |-> [null |-> FALSE,
                             buf |-> st.embeddings.buf \o [j \in 1..Len(embedding) |-> 0]],
         embeddingIndex |-> MapSet(st.embeddingIndex, chunkId, offset),
         embeddingDim   |-> dim]

\* storeEmbedding (part_000:94-108), from store st
storeEmbedding(st, chunkId, embedding) ==
    LET dim    == IF st.embeddings.null THEN Len(embedding) ELSE st.embeddingDim
        offset == Len(st.embeddings.buf)
    IN  [embeddings     |-> [null |-> FALSE, buf |-> st.embeddings.buf \o embedding],
         embeddingIndex |-> MapSet(st.embeddingIndex, chunkId, offset),
         embeddingDim   |-> dim]

\* TypedArray.prototype.slice(begin, end) for 0 <= begin <= end
Slice(buf, begin, end) ==
    LET e == IF end > Len(buf) THEN Len(buf) ELSE end IN
    IF begin >= e THEN <<>> ELSE SubSeq(buf, begin + 1, e)

\* getEmbedding without the test of part_000:112: slice(undefined, NaN) is
\* an empty array
getEmbedding_NoNullCheck(st, chunkId) ==
    IF ~MapHas(st.embeddingIndex, chunkId)
    THEN [found |-> TRUE, vector |-> <<>>]
    ELSE LET offset == MapGet(st.embeddingIndex, chunkId) IN
         [found |-> TRUE,
          vector |-> Slice(st.embeddings.buf, offset, offset + st.embeddingDim)]

\* getEmbedding (part_000:110-114): found is FALSE for the null result
getEmbedding(st, chunkId) ==
    IF ~MapHas(st.embeddingIndex, chunkId)
    THEN [found |-> FALSE, vector |-> <<>>]
    ELSE LET offset == MapGet(st.embeddingIndex, chunkId) IN
         [found |-> TRUE,
          vector |-> Slice(st.embeddings.buf, offset, offset + st.embeddingDim)]

(***************************************************************************)
(* The outcome of a call.                                                  *)
(***************************************************************************)
\* op, status, error and the returned ids (processText), results (search) or
\* totalChunks are what the caller sees; the other fields record the call's
\* arguments, the keys the Chunk Index held when the call began, and what
\* happened inside it (the vectors the provider returned, the frames the
\* codec could not read, whether the mux step was invoked, and for search
\* the chunk id of every returned item, in ids).  returned holds the names
\* of the fields of the object that encodeToVideo or decodeFromVideo returns.
NoCall ==
    [op |-> "none", status |-> "ok", error |-> "", ids |-> <<>>,
     results |-> <<>>, totalChunks |-> 0,
     chunks |-> <<>>, source |-> "<absent>", vectors |-> <<>>, failedAt |-> 0,
     id |-> <<>>, vector |-> <<>>,
     query |-> <<>>, limit |-> 0, filter |-> "none",
     lost |-> {}, frames |-> 0, priorKeys |-> {}, muxInvoked |-> FALSE,
     returned |-> {}]

Ok(op) == [NoCall EXCEPT !.op = op]

Failed(op, error) == [NoCall EXCEPT !.op = op, !.status = "error", !.error = error]

\* a call that has not returned yet
Pending(op) == [NoCall EXCEPT !.op = op, !.status = "pending"]

(***************************************************************************)
(* The Embedding Provider (part_000:31-57): initialize and                 *)
(* generateEmbedding are calls to a model or an HTTP service; each either  *)
(* fails or returns a vector of the provider's dimension.                  *)
(***************************************************************************)
EmbedVectors == {<<1>>, <<-1>>}

(***************************************************************************)
(* processText (part_000:59-71) and processBatch (part_000:73-92).  A call *)
(* in flight is at chunk number pt.pos (0 based) of pt.chunks; its batch   *)
(* starts at offset and i is the position in the batch.                    *)
(***************************************************************************)
Idle == [active |-> FALSE, chunks |-> <<>>, metadata |-> AbsentField,
         pos |-> 0, results |-> <<>>, vectors |-> <<>>]

\* the longest vector the provider returns
MaxEmbedLen == CHOOSE n \in {Len(v) : v \in EmbedVectors} :
                   \A v \in EmbedVectors : Len(v) <= n

ProcessTexts == {<<>>, <<"a">>, <<"a", ".", "b">>}

Sources == {"doc"}

BatchOffset(pos) == (pos \div Options.batchSize) * Options.batchSize

\* the chunk record of part_000:79-83
ChunkData(chunk, metadata, offset, i) ==
    ObjectValue(ChunkIdOf(chunk, offset, i), chunk,
                [source |-> metadata, index |-> offset + i])

\* await this.initialize() fails (part_000:36)
ProcessTextInitFails ==
    /\ ~pt.active
    /\ last' = Failed("processText", "ProviderUnavailable")
    /\ UNCHANGED <<index, embeddings, embeddingIndex, embeddingDim, disk, pt, ck, fn>>

\* part_000:60-62
ProcessTextStart(text, metadata) ==
    /\ ~pt.active
    /\ LET chunks == chunkText(text, Options.maxChunkSize) IN
       /\ Len(embeddings.buf) + MaxEmbedLen * Len(chunks) <= MaxBufLen
       /\ pt' = [active |-> TRUE, chunks |-> chunks, metadata |-> metadata,
                 pos |-> 0, results |-> <<>>, vectors |-> <<>>]
    /\ last' = Pending("processText")
    /\ UNCHANGED <<index, embeddings, embeddingIndex, embeddingDim, disk, ck, fn>>

\* one iteration of the loop of processBatch, part_000:76-89
ProcessChunk(embedding) ==
    /\ pt.active
    /\ pt.pos < Len(pt.chunks)
    /\ LET chunk     == pt.chunks[pt.pos + 1]
           offset    == BatchOffset(pt.pos)
           i         == pt.pos - offset
           chunkData == ChunkData(chunk, pt.metadata, offset, i)
           st        == storeEmbedding(Store, chunkData.id, embedding)
       IN  /\ index' = MapSet(index, chunkData.id, chunkData)
           /\ embeddings' = st.embeddings
           /\ embeddingIndex' = st.embeddingIndex
           /\ embeddingDim' = st.embeddingDim
           /\ pt' = [pt EXCEPT !.pos = pt.pos + 1,
                               !.results = Append(pt.results, chunkData.id),
                               !.vectors = Append(pt.vectors, embedding)]
    /\ UNCHANGED <<disk, last, ck, fn>>

\* the failing iteration with this.index.set after the embedding call: the
\* chunk whose embedding fails is not put into the Chunk Index
ProcessChunkEmbedFails_SetsAfter ==
    /\ pt.active
    /\ pt.pos < Len(pt.chunks)
    /\ last' = [Failed("processText", "ProviderError") EXCEPT
                   !.ids = pt.results, !.failedAt = pt.pos,
                   !.chunks = pt.chunks, !.source = pt.metadata,
                   !.vectors = pt.vectors]
    /\ pt' = Idle
    /\ UNCHANGED <<index, embeddings, embeddingIndex, embeddingDim, disk, ck, fn>>

\* the same iteration when generateEmbedding throws at part_000:86: the
\* error leaves processBatch and processText
ProcessChunkEmbedFails ==
    /\ pt.active
    /\ pt.pos < Len(pt.chunks)
    /\ LET chunk     == pt.chunks[pt.pos + 1]
           offset    == BatchOffset(pt.pos)
           i         == pt.pos - offset
           chunkData == ChunkData(chunk, pt.metadata, offset, i)
       IN  /\ index' = MapSet(index, chunkData.id, chunkData)
           /\ last' = [Failed("processText", "ProviderError") EXCEPT
                          !.ids = pt.results, !.failedAt = pt.pos,
                          !.chunks = pt.chunks, !.source = pt.metadata,
                          !.vectors = pt.vectors]
           /\ pt' = Idle
    /\ UNCHANGED <<embeddings, embeddingIndex, embeddingDim, disk, ck, fn>>

\* part_000:70
ProcessTextReturn ==
    /\ pt.active
    /\ pt.pos = Len(pt.chunks)
    /\ last' = [Ok("processText") EXCEPT
                   !.ids = pt.results, !.failedAt = Len(pt.chunks),
                   !.chunks = pt.chunks, !.source = pt.metadata,
                   !.vectors = pt.vectors]
    /\ pt' = Idle
    /\ UNCHANGED <<index, embeddings, embeddingIndex, embeddingDim, disk, ck, fn>>


(***************************************************************************)
(* A direct call of storeEmbedding (part_000:94-108), the Vector Store's   *)
(* put, by the owner of the instance.                                      *)
(***************************************************************************)
PutIds == {<<"p">>}

PutVectors == {<<1, 1>>}

StoreEmbedding(chunkId, embedding) ==
    /\ ~pt.active
    /\ Len(embeddings.buf) + Len(embedding) <= MaxBufLen
    /\ LET st == storeEmbedding(Store, chunkId, embedding) IN
       /\ embeddings' = st.embeddings
       /\ embeddingIndex' = st.embeddingIndex
       /\ embeddingDim' = st.embeddingDim
    /\ last' = [Ok("storeEmbedding") EXCEPT !.id = chunkId, !.vector = embedding]
    /\ UNCHANGED <<index, disk, pt, ck, fn>>

(***************************************************************************)
(* cosineSimilarity (part_000:362-367).  A similarity is NaN, or the       *)
(* number n / sqrt(d) with n the dot product and d the product of the two  *)
(* squared magnitudes; 0 is written n = 0, d = 1.  With components in      *)
(* -1..1 two candidates of one query have equal quotients exactly when     *)
(* they have the same n and d, so equality and order of these pairs are    *)
(* those of the computed numbers.                                          *)
(***************************************************************************)
NaN == [nan |-> TRUE, n |-> 0, d |-> 1]

Zero == [nan |-> FALSE, n |-> 0, d |-> 1]

RECURSIVE SumTo(_, _)
SumTo(f, n) == IF n = 0 THEN 0 ELSE SumTo(f, n - 1) + f[n]

SquaredMagnitude(a) == SumTo([i \in 1..Len(a) |-> a[i] * a[i]], Len(a))

\* a.reduce((sum, ai, i) => sum + ai * b[i], 0): b[i] is undefined, and the
\* sum NaN, when b is shorter than a
cosineSimilarity(a, b) ==
    IF Len(b) < Len(a) THEN NaN
    ELSE LET dotProduct == SumTo([i \in 1..Len(a) |-> a[i] * b[i]], Len(a))
             d          == SquaredMagnitude(a) * SquaredMagnitude(b)
         IN  IF d = 0 THEN NaN
             ELSE IF dotProduct = 0 THEN Zero
             ELSE [nan |-> FALSE, n |-> dotProduct, d |-> d]

Sign(n) == IF n > 0 THEN 1 ELSE IF n < 0 THEN -1 ELSE 0

\* x < y, for two similarities that are numbers
Less(x, y) == Sign(x.n) * x.n * x.n * y.d < Sign(y.n) * y.n * y.n * x.d

(***************************************************************************)
(* search (part_000:116-139).                                              *)
(***************************************************************************)
\* the predicates a caller passes as filter: none, or
\* chunk => chunk.metadata && chunk.metadata.index === 0
Filters == {"none", "first"}

Passes(filter, chunk) ==
    \/ filter = "none"
    \/ filter = "first" /\ chunk.metadata # NoMetadata /\ chunk.metadata.index = 0

\* part_000:121-123
RECURSIVE Candidates(_, _)
Candidates(m, filter) ==
    IF m = <<>> THEN <<>>
    ELSE (IF Passes(filter, Head(m).value) THEN <<Head(m)>> ELSE <<>>)
         \o Candidates(Tail(m), filter)

\* part_000:125-129
Similarities(st, idx, queryVector, filter) ==
    LET c == Candidates(idx, filter) IN
    [j \in 1..Len(c) |->
        LET embedding == getEmbedding(st, c[j].key) IN
        [chunkId    |-> c[j].key,
         similarity |-> IF embedding.found
                        THEN cosineSimilarity(queryVector, embedding.vector)
                        ELSE Zero,
         chunk      |-> c[j].value]]

\* Array.prototype.sort with (a, b) => b.similarity - a.similarity.  The sort
\* is stable: among numbers the outcome is the one order that is descending
\* with ties in their original order.
RECURSIVE InsertDescending(_, _)
InsertDescending(sorted, x) ==
    IF sorted = <<>> THEN <<x>>
    ELSE IF Less(Head(sorted).similarity, x.similarity)
         THEN <<x>> \o sorted
         ELSE <<Head(sorted)>> \o InsertDescending(Tail(sorted), x)

RECURSIVE StableSortDescending(_)
StableSortDescending(s) ==
    IF s = <<>> THEN <<>>
    ELSE InsertDescending(StableSortDescending(SubSeq(s, 1, Len(s) - 1)), s[Len(s)])

Orderings(s) ==
    {[j \in 1..Len(s) |-> s[p[j]]] :
        p \in {q \in [1..Len(s) -> 1..Len(s)] :
                  \A a, b \in 1..Len(s) : a # b => q[a] # q[b]}}

\* With a NaN similarity the comparator returns NaN for some pairs and is no
\* consistent comparator; the order is then implementation-defined
\* (ECMA-262, Array.prototype.sort): any order of the elements.
SortOutcomes(s) ==
    IF \E j \in 1..Len(s) : s[j].similarity.nan
    THEN Orderings(s)
    ELSE {StableSortDescending(s)}

\* Array.prototype.slice(0, limit): a negative limit counts from the end
SliceTo(s, limit) ==
    LET e == IF limit < 0 THEN (IF Len(s) + limit < 0 THEN 0 ELSE Len(s) + limit)
             ELSE IF limit > Len(s) THEN Len(s) ELSE limit
    IN  SubSeq(s, 1, e)

\* part_000:134-138
ResultOf(item) ==
    [text |-> item.chunk.text, metadata |-> item.chunk.metadata,
     similarity |-> item.similarity]

\* the item lists search can end with, part_000:131-133
TopItems(st, idx, queryVector, limit, filter) ==
    {SliceTo(sorted, limit) :
        sorted \in SortOutcomes(Similarities(st, idx, queryVector, filter))}

\* the largest limit passed to search in the model
MaxLimit == 2

Limits == -1..MaxLimit

\* the vectors the provider returns for the queries of the model
QueryVectors == {<<1>>}

SearchFails ==
    /\ ~pt.active
    /\ \E e \in {"ProviderUnavailable", "ProviderError"} :
          last' = Failed("search", e)
    /\ UNCHANGED <<index, embeddings, embeddingIndex, embeddingDim, disk, pt, ck, fn>>

Search(queryVector, limit, filter) ==
    /\ ~pt.active
    /\ \E top \in TopItems(Store, index, queryVector, limit, filter) :
          last' = [Ok("search") EXCEPT
                      !.results = [j \in 1..Len(top) |-> ResultOf(top[j])],
                      !.ids = [j \in 1..Len(top) |-> top[j].chunkId],
                      !.query = queryVector, !.limit = limit, !.filter = filter]
    /\ UNCHANGED <<index, embeddings, embeddingIndex, embeddingDim, disk, pt, ck, fn>>

(***************************************************************************)
(* Frame payloads.  A payload is the text a frame carries: the JSON text   *)
(* of an object, of a number or of null, or text that is no JSON.  The     *)
(* JSON text of an object lists the fields that are not undefined.         *)
(***************************************************************************)
ObjectPayload(id, text, metadata) ==
    [form |-> "object", id |-> id, text |-> text, metadata |-> metadata]

NumberPayload == [form |-> "number", id |-> Undefined, text |-> Undefined,
                  metadata |-> NoMetadata]

NullPayload == [NumberPayload EXCEPT !.form = "null"]

GarbagePayload == [NumberPayload EXCEPT !.form = "garbage"]

\* the payload without the metadata field of part_000:154
QrData_NoMetadata(chunkId, chunkData) ==
    ObjectPayload(chunkId, chunkData.text, NoMetadata)

\* JSON.stringify({id: chunkId, text: chunkData.text, metadata:
\* chunkData.metadata}) of part_000:151-155
QrData(chunkId, chunkData) ==
    ObjectPayload(chunkId, chunkData.text, chunkData.metadata)

\* JSON.parse (part_000:190): thrown is TRUE for a SyntaxError
JsonParse(qrData) ==
    CASE qrData.form = "garbage" -> [thrown |-> TRUE, null |-> FALSE, value |-> NumberValue]
      [] qrData.form = "null"    -> [thrown |-> FALSE, null |-> TRUE, value |-> NumberValue]
      [] qrData.form = "number"  -> [thrown |-> FALSE, null |-> FALSE, value |-> NumberValue]
      [] qrData.form = "object"  ->
            [thrown |-> FALSE, null |-> FALSE,
             value |-> ObjectValue(qrData.id, qrData.text, qrData.metadata)]

(***************************************************************************)
(* The files: outputPath and the sidecar path derived from it              *)
(* (part_000:146, 173).  The model has one path, ending in .mp4 as in      *)
(* test.js:41.                                                             *)
(***************************************************************************)
NoVideo == [exists |-> FALSE, frames |-> <<>>]

NoSidecar == [exists |-> FALSE, embeddings |-> <<>>, index |-> <<>>, embeddingDim |-> 0]

EmptyDisk == [video |-> NoVideo, sidecar |-> NoSidecar]

\* an artifact written elsewhere: four frames, of which one carries a chunk
\* record, and a sidecar that declares dimension 2, holds the one component
\* 0 for x, and gives y an offset outside its buffer
ForeignDisk ==
    [video |-> [exists |-> TRUE,
                frames |-> <<ObjectPayload(<<"x">>, <<"x">>, [source |-> "f", index |-> 0]),
                             NumberPayload, NullPayload, GarbagePayload>>],
     sidecar |-> [exists |-> TRUE, embeddings |-> <<0>>,
                  index |-> <<[key |-> <<"x">>, value |-> 0],
                              [key |-> <<"y">>, value |-> 5]>>,
                  embeddingDim |-> 2]]

\* saveEmbeddings (part_000:204-212): the file's content.  Array.from of a
\* Float32Array and Object.fromEntries of the Map keep every component and
\* every entry
saveEmbeddings(st) ==
    [exists |-> TRUE, embeddings |-> st.embeddings.buf,
     index |-> st.embeddingIndex, embeddingDim |-> st.embeddingDim]

\* parseInt of an offset that is a non-negative integer in the file
ParseInt(v) == v

\* loadEmbeddings without the assignment of part_000:218: the dimension
\* stays the constructor's
loadEmbeddings_KeepsDefaultDim(file) ==
    [embeddings     |-> [null |-> FALSE, buf |-> file.embeddings],
     embeddingIndex |-> [j \in 1..Len(file.index) |->
                            [key |-> file.index[j].key,
                             value |-> ParseInt(file.index[j].value)]],
     embeddingDim   |-> DefaultEmbeddingDim]

\* loadEmbeddings (part_000:214-219)
loadEmbeddings(file) ==
    [embeddings     |-> [null |-> FALSE, buf |-> file.embeddings],
     embeddingIndex |-> [j \in 1..Len(file.index) |->
                            [key |-> file.index[j].key,
                             value |-> ParseInt(file.index[j].value)]],
     embeddingDim   |-> file.embeddingDim]

(***************************************************************************)
(* encodeToVideo (part_000:141-166).                                       *)
(***************************************************************************)
\* the width frameIndex is padded to (part_000:157)
FramePadWidth == 6

\* String.prototype.padStart(width, '0')
RECURSIVE PadStart(_, _)
PadStart(s, width) ==
    IF Len(s) >= width THEN s ELSE PadStart(<<"0">> \o s, width)

\* `frame_${frameIndex.toString().padStart(6, '0')}.png` (part_000:157)
FrameName(frameIndex) ==
    <<"f", "r", "a", "m", "e", "_">>
        \o PadStart(NumberToString(frameIndex), FramePadWidth)
        \o <<".", "p", "n", "g">>

\* the UTF-16 code unit of a character of a frame name
CharCode(c) ==
    CASE c = "." -> 46
      [] c \in {"0", "1", "2", "3", "4", "5", "6", "7", "8", "9"} ->
            48 + (CHOOSE d \in 0..9 : DigitChar(d) = c)
      [] c = "_" -> 95  [] c = "a" -> 97   [] c = "e" -> 101 [] c = "f" -> 102
      [] c = "g" -> 103 [] c = "m" -> 109  [] c = "n" -> 110 [] c = "p" -> 112
      [] c = "r" -> 114

\* s sorts before t in the order of Array.prototype.sort() without a
\* comparator (part_000:177): by code units, a proper prefix first
RECURSIVE LexLess(_, _)
LexLess(s, t) ==
    IF t = <<>> THEN FALSE
    ELSE IF s = <<>> THEN TRUE
    ELSE IF Head(s) = Head(t) THEN LexLess(Tail(s), Tail(t))
    ELSE CharCode(Head(s)) < CharCode(Head(t))

\* the frames written by the loop of part_000:150-160, in frameIndex order
Frames(idx) == [j \in 1..Len(idx) |-> QrData(idx[j].key, idx[j].value)]

\* Array.from(this.embeddings) at part_000:206 throws when embeddings is null
EncodeSaveFails ==
    /\ ~pt.active
    /\ embeddings.null
    /\ last' = Failed("encodeToVideo", "TypeError")
    /\ UNCHANGED <<index, embeddings, embeddingIndex, embeddingDim, disk, pt, ck, fn>>

\* a loop that catches the error of generateQRFrame for the last entry and
\* goes on to mux the frames written before it
EncodeFrameFails_MuxesPartial ==
    /\ ~pt.active
    /\ ~embeddings.null
    /\ index # <<>>
    /\ disk' = [video |-> [exists |-> TRUE,
                           frames |-> SubSeq(Frames(index), 1, Len(index) - 1)],
                sidecar |-> saveEmbeddings(Store)]
    /\ last' = [Failed("encodeToVideo", "FrameGenerationError") EXCEPT
                   !.frames = Len(index) - 1, !.muxInvoked = TRUE]
    /\ UNCHANGED <<index, embeddings, embeddingIndex, embeddingDim, pt, ck, fn>>

\* generateQRFrame throws for the frame of some entry (part_000:158), after
\* saveEmbeddings has written the sidecar
EncodeFrameFails ==
    /\ ~pt.active
    /\ ~embeddings.null
    /\ index # <<>>
    /\ disk' = [disk EXCEPT !.sidecar = saveEmbeddings(Store)]
    /\ last' = Failed("encodeToVideo", "FrameGenerationError")
    /\ UNCHANGED <<index, embeddings, embeddingIndex, embeddingDim, pt, ck, fn>>

\* encodeFramesToVideo rejects (part_000:162, 290)
EncodeMuxFails ==
    /\ ~pt.active
    /\ ~embeddings.null
    /\ disk' = [disk EXCEPT !.sidecar = saveEmbeddings(Store)]
    /\ last' = [Failed("encodeToVideo", "ContainerFailure") EXCEPT
                   !.frames = Len(index), !.muxInvoked = TRUE]
    /\ UNCHANGED <<index, embeddings, embeddingIndex, embeddingDim, pt, ck, fn>>

EncodeToVideo ==
    /\ ~pt.active
    /\ ~embeddings.null
    /\ disk' = [video |-> [exists |-> TRUE, frames |-> Frames(index)],
                sidecar |-> saveEmbeddings(Store)]
    /\ last' = [Ok("encodeToVideo") EXCEPT
                   !.totalChunks = Len(index), !.frames = Len(index),
                   !.muxInvoked = TRUE,
                   !.returned = {"videoPath", "embeddingPath", "totalChunks"}]
    /\ UNCHANGED <<index, embeddings, embeddingIndex, embeddingDim, pt, ck, fn>>

(***************************************************************************)
(* decodeFromVideo (part_000:168-202).                                     *)
(***************************************************************************)
\* decodeFromVideo without this.index.clear()
Cleared_Keep(idx) == idx

\* this.index.clear() at part_000:179
Cleared(idx) == <<>>

\* the body of the loop for one frame, part_000:186-196: qrData is null for
\* a frame in lost (decodeQRFrame, part_000:260-279)
IngestFrame(idx, qrData, isLost) ==
    IF isLost THEN idx
    ELSE LET parsed == JsonParse(qrData) IN
         IF parsed.thrown \/ parsed.null THEN idx
         ELSE MapSet(idx, parsed.value.id, parsed.value)

\* the loop leaving at the first frame that decodeQRFrame cannot read
RECURSIVE IngestFrames_StopAtLost(_, _, _, _)
IngestFrames_StopAtLost(idx, frames, lost, n) ==
    IF n > Len(frames) \/ n \in lost THEN idx
    ELSE IngestFrames_StopAtLost(IngestFrame(idx, frames[n], FALSE), frames, lost, n + 1)

\* the loop of part_000:182-197 from frame n on
RECURSIVE IngestFrames(_, _, _, _)
IngestFrames(idx, frames, lost, n) ==
    IF n > Len(frames) THEN idx
    ELSE IngestFrames(IngestFrame(idx, frames[n], n \in lost), frames, lost, n + 1)

\* readFile of the sidecar fails (part_000:215)
DecodeLoadFails ==
    /\ ~pt.active
    /\ ~disk.sidecar.exists
    /\ last' = Failed("decodeFromVideo", "SidecarUnreadable")
    /\ UNCHANGED <<index, embeddings, embeddingIndex, embeddingDim, disk, pt, ck, fn>>

\* extractFramesFromVideo rejects (part_000:176, 301), after loadEmbeddings
DecodeDemuxFails ==
    /\ ~pt.active
    /\ disk.sidecar.exists
    /\ LET st == loadEmbeddings(disk.sidecar) IN
       /\ embeddings' = st.embeddings
       /\ embeddingIndex' = st.embeddingIndex
       /\ embeddingDim' = st.embeddingDim
    /\ last' = Failed("decodeFromVideo", "ContainerFailure")
    /\ UNCHANGED <<index, disk, pt, ck, fn>>

DecodeFromVideo(lost) ==
    /\ ~pt.active
    /\ disk.sidecar.exists
    /\ disk.video.exists
    /\ LET st == loadEmbeddings(disk.sidecar) IN
       /\ embeddings' = st.embeddings
       /\ embeddingIndex' = st.embeddingIndex
       /\ embeddingDim' = st.embeddingDim
    /\ index' = IngestFrames(Cleared(index), disk.video.frames, lost, 1)
    /\ last' = [Ok("decodeFromVideo") EXCEPT
                   !.totalChunks = Len(index'), !.lost = lost,
                   !.frames = Len(disk.video.frames),
                   !.priorKeys = MapKeys(index),
                   !.returned = {"totalChunks"}]
    /\ UNCHANGED <<disk, pt, ck, fn>>

(***************************************************************************)
(* The instance after construction (part_000:11-29), and its calls.        *)
(***************************************************************************)
NoChunkerCall == [pc |-> "none", text |-> <<>>, maxSize |-> 0, chunks |-> <<>>]

Fresh ==
    /\ index = <<>>
    /\ embeddings = NullEmbeddings
    /\ embeddingIndex = <<>>
    /\ embeddingDim = DefaultEmbeddingDim
    /\ pt = Idle
    /\ last = NoCall

NoFrameCall == [pc |-> "none", first |-> 0, second |-> 0, names |-> <<>>]

Init ==
    /\ Fresh
    /\ disk \in {EmptyDisk, ForeignDisk}
    /\ ck = NoChunkerCall
    /\ fn = NoFrameCall

Next ==
    \/ ProcessTextInitFails
    \/ \E text \in ProcessTexts, source \in Sources : ProcessTextStart(text, source)
    \/ \E embedding \in EmbedVectors : ProcessChunk(embedding)
    \/ ProcessChunkEmbedFails
    \/ ProcessTextReturn
    \/ \E chunkId \in PutIds, embedding \in PutVectors : StoreEmbedding(chunkId, embedding)
    \/ SearchFails
    \/ \E queryVector \in QueryVectors, limit \in Limits, filter \in Filters :
          Search(queryVector, limit, filter)
    \/ EncodeSaveFails
    \/ EncodeFrameFails
    \/ EncodeMuxFails
    \/ EncodeToVideo
    \/ DecodeLoadFails
    \/ DecodeDemuxFails
    \/ \E lost \in SUBSET (1..Len(disk.video.frames)) : DecodeFromVideo(lost)

Spec == Init /\ [][Next]_vars

(***************************************************************************)
(* The chunker specification: chunkText applied to every text over         *)
(* Alphabet of at most MaxTextLen characters, for every maxSize up to      *)
(* MaxMaxSize.                                                             *)
(***************************************************************************)
Alphabet == {"a", " ", ".", "!"}

RECURSIVE TextsOfLen(_)
TextsOfLen(n) ==
    IF n = 0 THEN {<<>>}
    ELSE {Append(t, c) : t \in TextsOfLen(n - 1), c \in Alphabet}

AllTexts == UNION {TextsOfLen(n) : n \in 0..MaxTextLen}

InitChunk ==
    /\ Fresh
    /\ disk = EmptyDisk
    /\ ck \in {[pc |-> "call", text |-> t, maxSize |-> m, chunks |-> <<>>] :
                t \in AllTexts, m \in 1..MaxMaxSize}
    /\ fn = NoFrameCall

ApplyChunkText ==
    /\ ck.pc = "call"
    /\ ck' = [ck EXCEPT !.pc = "done",
                        !.chunks = ChunkTextCounted(ck.text, ck.maxSize)]
    /\ UNCHANGED <<core, fn>>

NextChunk == ApplyChunkText

SpecChunk == InitChunk /\ [][NextChunk]_vars

(***************************************************************************)
(* The frame-name specification: the names that the loop of encodeToVideo  *)
(* (part_000:149-160) gives to two of its frames.  The README speaks of    *)
(* millions of chunks in one video.                                        *)
(***************************************************************************)
\* values of frameIndex: the first frames, and those around each power of
\* ten up to the seventh digit
FrameIndexes ==
    {0, 1, 2, 9, 10, 11, 99, 100, 999, 1000, 99999, 100000,
     999998, 999999, 1000000, 1000001}

InitFrames ==
    /\ Fresh
    /\ disk = EmptyDisk
    /\ ck = NoChunkerCall
    /\ fn \in {[pc |-> "call", first |-> a, second |-> b, names |-> <<>>] :
                a \in FrameIndexes, b \in FrameIndexes}

NameFrames ==
    /\ fn.pc = "call"
    /\ fn' = [fn EXCEPT !.pc = "done",
                        !.names = <<FrameName(fn.first), FrameName(fn.second)>>]
    /\ UNCHANGED <<core, ck>>

NextFrames == NameFrames

SpecFrames == InitFrames /\ [][NextFrames]_vars

(***************************************************************************)
(* The processText specification: an instance on which nothing but         *)
(* processText is called (part_000:59-92).                                 *)
(***************************************************************************)
NextProcess ==
    \/ ProcessTextInitFails
    \/ \E text \in ProcessTexts, source \in Sources : ProcessTextStart(text, source)
    \/ \E embedding \in EmbedVectors : ProcessChunk(embedding)
    \/ ProcessChunkEmbedFails
    \/ ProcessTextReturn

SpecProcess == Init /\ [][NextProcess]_vars

(***************************************************************************)
(* Claims.                                                                 *)
(***************************************************************************)
\* a step that is a call of storeEmbedding with this vector: the direct
\* call, or the call at part_000:87 of a processBatch iteration
DirectPut == last'.op = "storeEmbedding"

BatchPut == pt.active /\ pt'.active /\ pt'.pos = pt.pos + 1

PutVector == IF DirectPut THEN last'.vector ELSE pt'.vectors[pt'.pos]

\* C1: once a dimension D is established, a put of a vector whose length
\* differs from D fails with DimensionMismatch and leaves the buffer, the
\* id -> offset mapping and D as they were.
C1_PutRejectsOtherDimension ==
    [][((DirectPut \/ BatchPut) /\ ~embeddings.null
            /\ Len(PutVector) # embeddingDim)
        => /\ last'.status = "error"
           /\ last'.error = "DimensionMismatch"
           /\ embeddings' = embeddings
           /\ embeddingIndex' = embeddingIndex
           /\ embeddingDim' = embeddingDim]_vars

\* the frames of a video that the codec read and whose payload parsed to a
\* value with fields (an object or a number)
Recovered(frames, lost) ==
    {n \in 1..Len(frames) : n \notin lost /\ frames[n].form \in {"object", "number"}}

DecodeSucceeded == last.op = "decodeFromVideo" /\ last.status = "ok"

\* C2: after a successful decodeFromVideo the Chunk Index holds exactly what
\* was recovered from the video's frames (every entry is the parse of a
\* readable frame under that frame's id, and every id carried by a readable
\* frame maps to the last such frame's record), and the Vector Store holds
\* exactly the sidecar's buffer, mapping and dimension; whatever was there
\* before the call has no part in either.
C2_DecodeReplaces ==
    DecodeSucceeded =>
        LET frames == disk.video.frames
            rec    == Recovered(frames, last.lost)
            Key(n) == JsonParse(frames[n]).value.id
        IN  /\ \A j \in 1..Len(index) :
                  \E n \in rec : /\ index[j].key = Key(n)
                                 /\ index[j].value = JsonParse(frames[n]).value
            /\ \A n \in rec :
                  /\ MapHas(index, Key(n))
                  /\ (\A m \in rec : Key(m) = Key(n) => m <= n)
                        => MapGet(index, Key(n)) = JsonParse(frames[n]).value
            /\ ~embeddings.null
            /\ embeddings.buf = disk.sidecar.embeddings
            /\ embeddingIndex = disk.sidecar.index
            /\ embeddingDim = disk.sidecar.embeddingDim

\* a decode after which an id held before the call is gone, and the index
\* is not empty
C2_Witness ==
    /\ DecodeSucceeded
    /\ index # <<>>
    /\ \E k \in last.priorKeys : ~MapHas(index, k)

\* every entry is a chunk record as processBatch builds it (part_000:79-85)
ChunkRecords(idx) ==
    \A j \in 1..Len(idx) :
        /\ idx[j].value.kind = "object"
        /\ idx[j].key = idx[j].value.id
        /\ idx[j].key # Undefined
        /\ idx[j].value.text # Undefined
        /\ idx[j].value.metadata # NoMetadata

\* the step is a successful decodeFromVideo of the video that the call
\* before it, a successful encodeToVideo, made of the present Chunk Index
DecodesOwnVideo ==
    /\ last.op = "encodeToVideo" /\ last.status = "ok"
    /\ last'.op = "decodeFromVideo" /\ last'.status = "ok"

\* C3: for a Chunk Index of chunk records, encodeToVideo followed by
\* decodeFromVideo with no frame lost yields a Chunk Index with the same set
\* of (id, text, metadata) records, one per frame.
C3_LosslessRoundTrip ==
    [][(DecodesOwnVideo /\ ChunkRecords(index) /\ last'.lost = {})
        => /\ MapEntries(index') = MapEntries(index)
           /\ Len(index') = last'.frames]_vars

\* a decode with no frame lost after which the video on disk is the
\* encoding of the Chunk Index, which holds the chunks of "a.b"
C3_Witness ==
    /\ DecodeSucceeded
    /\ last.lost = {}
    /\ ChunkRecords(index)
    /\ disk.video.frames = Frames(index)
    /\ MapHas(index, <<"a", "0", "0">>)
    /\ MapHas(index, <<"b", "1", "0">>)

\* the step is a decodeFromVideo of the video that the call before it, a
\* successful encodeToVideo, made of the present Chunk Index
DecodeOfOwnVideo ==
    /\ last.op = "encodeToVideo" /\ last.status = "ok"
    /\ last'.op = "decodeFromVideo"

\* C4: whatever frames the codec cannot read, decodeFromVideo does not
\* abort (it fails only when the Video Container does), and the Chunk Index
\* then holds exactly the records of the readable frames, each identical to
\* the record that was encoded.
C4_LossyRoundTrip ==
    [][(DecodeOfOwnVideo /\ ChunkRecords(index) /\ last'.error # "ContainerFailure")
        => /\ last'.status = "ok"
           /\ MapEntries(index') = {index[n] : n \in (1..Len(index)) \ last'.lost}]_vars

\* a decode of an own video of two frames of which the first was unreadable
C4_Witness ==
    /\ DecodeSucceeded
    /\ last.lost = {1}
    /\ Len(disk.video.frames) = 2
    /\ disk.video.frames[1].id = <<"a", "0", "0">>
    /\ MapKeys(index) = {<<"b", "1", "0">>}

SearchReturned == last.op = "search" /\ last.status = "ok"

\* x >= y for two similarities, as numbers compare: false with a NaN
AtLeast(x, y) == ~x.nan /\ ~y.nan /\ ~Less(x, y)

\* C5: search returns its results in descending order of score, and results
\* of equal score in their Chunk Index insertion order.
C5_RankingOrder ==
    SearchReturned =>
        \A j, k \in 1..Len(last.results) :
            j < k =>
                /\ AtLeast(last.results[j].similarity, last.results[k].similarity)
                /\ last.results[j].similarity = last.results[k].similarity
                      => MapPos(index, last.ids[j]) < MapPos(index, last.ids[k])

\* C6: search returns at most k results, none for k <= 0, and every
\* candidate for k greater than the number of candidates.
C6_ResultSize ==
    SearchReturned =>
        LET n == Len(Candidates(index, last.filter)) IN
        /\ last.limit <= 0 => last.results = <<>>
        /\ last.limit > 0 => Len(last.results) <= last.limit
        /\ last.limit > n => Len(last.results) = n

\* C7: every chunk returned by chunkText is at most maxSize long, except a
\* chunk that is exactly one sentence longer than maxSize.
C7_ChunkSizeBound ==
    ck.pc = "done" =>
        \A i \in 1..Len(ck.chunks) :
            \/ Len(ck.chunks[i].text) <= ck.maxSize
            \/ ck.chunks[i].sentences = 1


\* C8: encodeToVideo on an instance whose Chunk Index is empty succeeds,
\* with zero frames and totalChunks = 0 (unless the Video Container fails).
C8_EncodeEmptySucceeds ==
    (last.op = "encodeToVideo" /\ index = <<>> /\ last.error # "ContainerFailure")
        => /\ last.status = "ok"
           /\ last.frames = 0
           /\ last.totalChunks = 0

\* C9: a candidate whose id has no entry in the Vector Store gets the score
\* 0 from search, and search fails only when the embedding provider does.
C9_MissingVectorScoresZero ==
    /\ (last.op = "search" /\ last.status = "error")
          => last.error \in {"ProviderUnavailable", "ProviderError"}
    /\ SearchReturned =>
          \A j \in 1..Len(last.results) :
              ~MapHas(embeddingIndex, last.ids[j])
                  => last.results[j].similarity = Zero

\* a search that returned a chunk held in the Chunk Index without a vector
C9_Witness ==
    /\ SearchReturned
    /\ \E j \in 1..Len(last.results) :
          /\ MapHas(index, last.ids[j])
          /\ ~MapHas(embeddingIndex, last.ids[j])
          /\ last.results[j].similarity = Zero

\* the step in which the embedding call for chunk j = pt.pos fails
EmbeddingFails == pt.active /\ last'.op = "processText" /\ last'.status = "error"

\* the id and the record of chunk k (0 based) of the call in flight
IdOfChunk(k) ==
    ChunkIdOf(pt.chunks[k + 1], BatchOffset(k), k - BatchOffset(k))

RecordOfChunk(k) ==
    ChunkData(pt.chunks[k + 1], pt.metadata, BatchOffset(k), k - BatchOffset(k))

\* C10: when the embedding call for chunk j fails, processText fails with
\* that error, nothing is done for the chunks after j, and every chunk
\* before j is still in the Chunk Index and in the Vector Store, which holds
\* its vector at its recorded offset.
C10_PartialFailure ==
    [][EmbeddingFails
        => /\ last'.error = "ProviderError"
           /\ ~pt'.active
           /\ \A k \in (pt.pos + 1)..(Len(pt.chunks) - 1) :
                 /\ MapHas(index', IdOfChunk(k)) => MapHas(index, IdOfChunk(k))
                 /\ MapHas(embeddingIndex', IdOfChunk(k))
                       => MapHas(embeddingIndex, IdOfChunk(k))
           /\ \A k \in 0..(pt.pos - 1) :
                 /\ MapHas(index', IdOfChunk(k))
                 /\ MapGet(index', IdOfChunk(k)) = RecordOfChunk(k)
                 /\ MapHas(embeddingIndex', IdOfChunk(k))
                 /\ LET offset == MapGet(embeddingIndex', IdOfChunk(k))
                        v      == pt.vectors[k + 1]
                    IN  Slice(embeddings'.buf, offset, offset + Len(v)) = v]_vars

\* a processText of two chunks that failed on the second: the first is in
\* the Chunk Index and the Vector Store, the second in the Chunk Index
C10_Witness ==
    /\ last.op = "processText" /\ last.status = "error"
    /\ Len(last.chunks) = 2
    /\ last.failedAt = 1
    /\ MapHas(index, last.ids[1])
    /\ MapHas(embeddingIndex, last.ids[1])

\* the sequences of (text, metadata, similarity) that search can return
SearchResultsOf(st, idx, queryVector, limit, filter) ==
    {[j \in 1..Len(top) |-> ResultOf(top[j])] :
        top \in TopItems(st, idx, queryVector, limit, filter)}

\* C11: after encodeToVideo and decodeFromVideo of the same path with no
\* frame lost, every search returns the ranked sequence of (text, metadata,
\* similarity) it returned before, and the Chunk Index and the id -> offset
\* mapping have the sizes they had.
C11_SearchPreserved ==
    [][(DecodesOwnVideo /\ ChunkRecords(index) /\ last'.lost = {})
        => /\ \A q \in QueryVectors, limit \in Limits, f \in Filters :
                 SearchResultsOf(Store', index', q, limit, f)
                    = SearchResultsOf(Store, index, q, limit, f)
           /\ Len(index') = Len(index)
           /\ Len(embeddingIndex') = Len(embeddingIndex)]_vars

\* a decode of an own video of two chunks with no frame lost, after which
\* search ranks the second chunk above the first
C11_Witness ==
    /\ DecodeSucceeded
    /\ last.lost = {}
    /\ ChunkRecords(index)
    /\ Len(index) = 2
    /\ disk.video.frames = Frames(index)
    /\ disk.sidecar = saveEmbeddings(Store)
    /\ \E top \in TopItems(Store, index, <<1>>, 2, "none") :
          /\ Len(top) = 2
          /\ top[1].chunkId = index[2].key
          /\ Less(top[2].similarity, top[1].similarity)

\* C12: the object decodeFromVideo returns gives the number of chunks
\* decoded, one per frame whose payload was read and parsed, and besides it
\* the number of frames examined.
C12_DecodeReports ==
    DecodeSucceeded =>
        /\ "totalChunks" \in last.returned
        /\ last.totalChunks = Cardinality(Recovered(disk.video.frames, last.lost))
        /\ \E field \in last.returned : field # "totalChunks"

\* C13: a call of storeEmbedding leaves the offset of every id recorded
\* before it as it was, the id it stores included, and leaves no two ids
\* with the same offset.
C13_OffsetsStable ==
    [][(DirectPut \/ BatchPut)
        => /\ \A j \in 1..Len(embeddingIndex) :
                 /\ MapHas(embeddingIndex', embeddingIndex[j].key)
                 /\ MapGet(embeddingIndex', embeddingIndex[j].key)
                       = embeddingIndex[j].value
           /\ \A j, k \in 1..Len(embeddingIndex') :
                 j # k => embeddingIndex'[j].value # embeddingIndex'[k].value]_vars

\* C14: in every state every recorded offset addresses a full vector of
\* the established dimension inside the buffer.
C14_StoreShape ==
    ~embeddings.null =>
        \A j \in 1..Len(embeddingIndex) :
            embeddingIndex[j].value + embeddingDim <= Len(embeddings.buf)

\* C15: a score that search computed with cosineSimilarity from a query
\* vector or a stored vector of magnitude 0 is the number 0.
C15_ZeroMagnitudeScoresZero ==
    SearchReturned =>
        \A j \in 1..Len(last.results) :
            LET embedding == getEmbedding(Store, last.ids[j]) IN
            (/\ embedding.found
             /\ \/ SquaredMagnitude(last.query) = 0
                \/ SquaredMagnitude(embedding.vector) = 0)
                => last.results[j].similarity = Zero

\* a payload that is a chunk record: the JSON text of an object with an id
ValidRecord(qrData) == qrData.form = "object" /\ qrData.id # Undefined

\* C16: after a successful decodeFromVideo no Chunk Index entry comes from a
\* frame whose payload is not a chunk record (text that is no JSON, or the
\* JSON text of a number or of null), and the chunk record of every readable
\* frame is in the Chunk Index, whatever payloads came before it.
C16_MalformedSkipped ==
    DecodeSucceeded =>
        LET frames == disk.video.frames
            valid  == {n \in 1..Len(frames) :
                          n \notin last.lost /\ ValidRecord(frames[n])}
        IN  /\ \A j \in 1..Len(index) :
                  \E n \in valid : index[j].key = frames[n].id
            /\ \A n \in valid : MapHas(index, frames[n].id)

\* every offset of the file addresses a full vector of the declared
\* dimension inside the file's buffer
ConsistentSidecar(file) ==
    \A j \in 1..Len(file.index) :
        file.index[j].value + file.embeddingDim <= Len(file.embeddings)

\* C17: a decodeFromVideo that finds a sidecar whose buffer, offsets and
\* declared dimension disagree fails, and the Vector Store after the call is
\* not that sidecar's content.
C17_SidecarValidated ==
    [][(last'.op = "decodeFromVideo" /\ disk.sidecar.exists
            /\ ~ConsistentSidecar(disk.sidecar))
        => /\ last'.status = "error"
           /\ Store' # loadEmbeddings(disk.sidecar)]_vars

\* C18: a successful encodeToVideo makes one frame per Chunk Index entry
\* and reports that number, the i-th frame carries the i-th entry, and the
\* frames' names stand in the lexicographic order of their numbers.
C18_FrameSequence ==
    /\ (last.op = "encodeToVideo" /\ last.status = "ok")
          => /\ last.frames = Len(index)
             /\ last.totalChunks = Len(index)
             /\ disk.video.frames = Frames(index)
    /\ (fn.pc = "done" /\ fn.first < fn.second)
          => LexLess(fn.names[1], fn.names[2])

\* C19: when generateQRFrame fails for an entry, encodeToVideo fails with
\* that error, the mux step is not invoked, the video file is what it was
\* before the call, and the Chunk Index and the Vector Store are untouched.
C19_FrameFailureAborts ==
    [][(last'.op = "encodeToVideo" /\ last'.error = "FrameGenerationError")
        => /\ last'.status = "error"
           /\ ~last'.muxInvoked
           /\ disk'.video = disk.video
           /\ UNCHANGED <<index, embeddings, embeddingIndex, embeddingDim>>]_vars

\* an encodeToVideo of a Chunk Index of two chunks failed at a frame: the
\* sidecar is written and there is no video
C19_Witness ==
    /\ last.op = "encodeToVideo"
    /\ last.error = "FrameGenerationError"
    /\ Len(index) = 2
    /\ disk.sidecar.exists
    /\ ~disk.video.exists

\* C20: a decodeFromVideo that fails leaves the Chunk Index and the Vector
\* Store exactly as they were before the call.
C20_DecodeAllOrNothing ==
    [][(last'.op = "decodeFromVideo" /\ last'.status = "error")
        => UNCHANGED <<index, embeddings, embeddingIndex, embeddingDim>>]_vars

\* C21: whenever no processText call is in flight on an instance that has
\* seen processText calls only, the Chunk Index and the id -> offset mapping
\* hold the same ids.
C21_IndexStorePaired ==
    ~pt.active => MapKeys(index) = MapKeys(embeddingIndex)

\* C21, amended: whenever no processText call is in flight on such an
\* instance, every id of the id -> offset mapping is in the Chunk Index; and
\* the chunk whose embedding call fails is put into the Chunk Index by that
\* call, which leaves the mapping as it was.
C21_IndexCoversStore ==
    [][/\ ~pt'.active => MapKeys(embeddingIndex') \subseteq MapKeys(index')
       /\ EmbeddingFails
             => /\ MapHas(index', IdOfChunk(pt.pos))
                /\ MapGet(index', IdOfChunk(pt.pos)) = RecordOfChunk(pt.pos)
                /\ embeddingIndex' = embeddingIndex]_vars

\* a processText of two chunks failed on the second: both are in the Chunk
\* Index, the first alone has an offset
C21_Witness ==
    /\ ~pt.active
    /\ last.op = "processText" /\ last.status = "error"
    /\ last.failedAt = 1
    /\ Len(index) = 2
    /\ MapKeys(embeddingIndex) = {index[1].key}

=============================================================================
